---- MODULE Spec2Model ----
(***************************************************************************)
(* Model of the prompt helpers of src/src/tokenizer.py:                    *)
(*   create_negative_prompt(style="general")   (lines 185-202)             *)
(*   enhance_prompt(prompt, style="realistic") (lines 205-224)             *)
(* Python strings are TLA+ strings; a Python call either returns a value   *)
(* or raises, which the model records in the field exc ("" = no error).    *)
(*                                                                         *)
(* Spec     : one caller, every call is one atomic action.                 *)
(* SpecConc : NumCallers callers whose calls interleave statement by       *)
(*            statement, each call working in its own frame of locals.     *)
(***************************************************************************)
EXTENDS Naturals, Sequences, FiniteSets, TLC

VARIABLES
    enhancements,      \* the dict enhance_prompt built (as the last call left it)
    negative_prompts,  \* the dict create_negative_prompt built (ditto)
    last,              \* the most recent completed call: arguments and outcome
    ref,               \* some earlier completed call, remembered for comparison
    between,           \* TRUE iff other calls completed after ref and before last
    caller,            \* SpecConc: per caller, its call in progress and its outcome
    frames,            \* SpecConc: per frame, the locals of the call running in it
    csv,               \* SpecData: per split, data/<split>/dataset.csv (exists, lines)
    fine_tuner,        \* SpecData: TextToImageInterface.fine_tuner is set
    tuning,            \* SpecData: how the last start_fine_tuning went, and on what data
    watched,           \* SpecData: one custom pair added to the train split, remembered
    lastAdd,           \* SpecData: what the last add_custom_data call did
    generator,         \* SpecGen: TextToImageInterface.generator (None or the object)
    loads,             \* SpecGen: load_model calls on the generator so far
    loadRaised,        \* SpecGen: TRUE iff some load_model call raised
    out                \* SpecGen: the last generate call, its steps and its outcome

promptVars == <<enhancements, negative_prompts, last, ref, between>>
concVars == <<caller, frames>>
dataVars == <<csv, fine_tuner, tuning, watched, lastAdd>>

genVars == <<generator, loads, loadRaised, out>>

vars == <<promptVars, concVars, dataVars, genVars>>

---------------------------------------------------------------------------
(* Bounds of the model *)

MaxPromptLen == 2
NumCallers == 2
MaxRows == 5          \* add_custom_data is not called on a CSV with this many data rows
MaxImages == 2        \* num_images is at most this
MaxLoads == 2         \* load_model calls are counted up to this many

PromptAlphabet == {"A", " "}

RECURSIVE StringsUpTo(_)
StringsUpTo(n) ==
    IF n = 0 THEN {""}
    ELSE LET S == StringsUpTo(n - 1)
         IN  S \cup {s \o ch : s \in S, ch \in PromptAlphabet}

Prompts == StringsUpTo(MaxPromptLen) \cup {"a cute dog"}

RecognizedStyles == {"realistic", "artistic", "professional", "cinematic"}
RecognizedCategories == {"general", "portrait", "landscape", "object"}

Styles == RecognizedStyles \cup {"bogus", ""}
Categories == RecognizedCategories \cup {"unknown-category", ""}

Callers == 1 .. NumCallers
ConcPrompts == {"", "a cute dog"}
ConcStyles == {"cinematic", "bogus"}
ConcCategories == {"portrait", "unknown-category"}

---------------------------------------------------------------------------
(* Python building blocks *)

\* The whitespace characters the model's strings use (str.strip, str.rstrip
\* and str.isspace treat them alike).
Whitespace == {" ", "\t", "\n"}

\* str.strip(): leading and trailing whitespace removed.
RECURSIVE Strip(_)
Strip(s) ==
    IF Len(s) = 0 THEN s
    ELSE IF SubSeq(s, 1, 1) \in Whitespace THEN Strip(SubSeq(s, 2, Len(s)))
    ELSE IF SubSeq(s, Len(s), Len(s)) \in Whitespace THEN Strip(SubSeq(s, 1, Len(s) - 1))
    ELSE s

UpperLetters == <<"A", "B", "C", "D", "E", "F", "G", "H", "I", "J", "K", "L", "M",
                  "N", "O", "P", "Q", "R", "S", "T", "U", "V", "W", "X", "Y", "Z">>
LowerLetters == <<"a", "b", "c", "d", "e", "f", "g", "h", "i", "j", "k", "l", "m",
                  "n", "o", "p", "q", "r", "s", "t", "u", "v", "w", "x", "y", "z">>

\* str.lower() on the ASCII letters.
RECURSIVE Lower(_)
Lower(s) ==
    IF Len(s) = 0 THEN s
    ELSE LET ch == SubSeq(s, 1, 1)
             lo == IF \E i \in 1 .. 26 : UpperLetters[i] = ch
                   THEN LowerLetters[CHOOSE i \in 1 .. 26 : UpperLetters[i] = ch]
                   ELSE ch
         IN  lo \o Lower(SubSeq(s, 2, Len(s)))

\* d[k]: the value, or KeyError when k is no key of d.
DictGetItem(d, k) ==
    IF k \in DOMAIN d
    THEN [exc |-> "", value |-> d[k]]
    ELSE [exc |-> "KeyError", value |-> ""]

\* Mutant: d[k] in place of d.get(k, default).
DictSubscript(d, k, default) ==
    IF k \in DOMAIN d
    THEN [exc |-> "", value |-> d[k], dict |-> d]
    ELSE [exc |-> "KeyError", value |-> "", dict |-> d]

\* Mutant: d.setdefault(k, default) in place of d.get(k, default).
DictSetDefault(d, k, default) ==
    IF k \in DOMAIN d
    THEN [exc |-> "", value |-> d[k], dict |-> d]
    ELSE [exc |-> "", value |-> default, dict |-> (k :> default) @@ d]

\* Mutant: d.get(k) with the default forgotten; None is formatted as "None".
DictGetNoDefault(d, k, default) ==
    IF k \in DOMAIN d
    THEN [exc |-> "", value |-> d[k], dict |-> d]
    ELSE [exc |-> "", value |-> "None", dict |-> d]

\* Mutant: the key is ignored and the default always returned.
DictGetAlwaysDefault(d, k, default) ==
    [exc |-> "", value |-> default, dict |-> d]

\* Mutant: the key is normalised (k.strip().lower()) before the lookup.
DictGetNormalized(d, k, default) ==
    IF Lower(Strip(k)) \in DOMAIN d
    THEN [exc |-> "", value |-> d[Lower(Strip(k))], dict |-> d]
    ELSE [exc |-> "", value |-> default, dict |-> d]

\* d.get(k, default): d[k] when k is a key, else default; never raises and
\* leaves d as it was (field dict is d after the call).
DictGet(d, k, default) ==
    IF k \in DOMAIN d
    THEN [exc |-> "", value |-> d[k], dict |-> d]
    ELSE [exc |-> "", value |-> default, dict |-> d]

\* Mutant: the separator lacks its space.
FStringNoSpace(prompt, enhancement) == prompt \o "," \o enhancement

\* Mutant: the prompt is stripped first, as preprocess_text does.
FStringStripped(prompt, enhancement) == Strip(prompt) \o ", " \o enhancement

\* f"{prompt}, {enhancement}": format() of a str is the str itself.
FString(prompt, enhancement) == prompt \o ", " \o enhancement

---------------------------------------------------------------------------
(* The two dict displays *)

NegativePromptsLiteral ==
    [k \in RecognizedCategories |->
        CASE k = "general" ->
               "blurry, low quality, distorted, deformed, bad anatomy, bad proportions"
          [] k = "portrait" ->
               "blurry, low quality, bad face, deformed face, extra limbs, bad anatomy"
          [] k = "landscape" ->
               "blurry, low quality, distorted horizon, bad composition, oversaturated"
          [] k = "object" ->
               "blurry, low quality, deformed, bad shape, unrealistic proportions"]

\* Mutant: the cinematic entry carries the professional text.
EnhancementsLiteralMixedUp ==
    [k \in RecognizedStyles |->
        CASE k = "realistic" -> "photorealistic, high quality, detailed, 8k resolution"
          [] k = "artistic" -> "artistic, beautiful, masterpiece, high quality"
          [] k = "professional" -> "professional photography, studio lighting, high quality"
          [] k = "cinematic" -> "professional photography, studio lighting, high quality"]

EnhancementsLiteral ==
    [k \in RecognizedStyles |->
        CASE k = "realistic" -> "photorealistic, high quality, detailed, 8k resolution"
          [] k = "artistic" -> "artistic, beautiful, masterpiece, high quality"
          [] k = "professional" -> "professional photography, studio lighting, high quality"
          [] k = "cinematic" -> "cinematic lighting, dramatic, high quality, film photography"]

\* Mutant: the fallback key is another style.
FallbackStyleArtistic == "artistic"

\* The key of the fallback entry in enhancements.get(style, enhancements["realistic"]).
FallbackStyle == "realistic"

\* The key of the fallback entry in negative_prompts.get(style, negative_prompts["general"]).
FallbackCategory == "general"

---------------------------------------------------------------------------
(* The two functions, as one call computes them.  Each yields the outcome   *)
(* (exc, ret) and dict, the table the call built as the call left it.       *)

create_negative_prompt(style) ==
    LET negs == NegativePromptsLiteral
        dflt == DictGetItem(negs, FallbackCategory)   \* evaluated before .get is called
    IN  IF dflt.exc # ""
        THEN [exc |-> dflt.exc, ret |-> "", dict |-> negs]
        ELSE LET g == DictGet(negs, style, dflt.value)
             IN  [exc |-> g.exc, ret |-> g.value, dict |-> g.dict]

\* Mutant: results memoised in module state under the style alone.
enhance_prompt_cached(prompt, style) ==
    IF last.fn = "enhance_prompt" /\ last.style = style /\ last.exc = ""
    THEN [exc |-> "", ret |-> last.ret, dict |-> EnhancementsLiteral]
    ELSE LET g == DictGet(EnhancementsLiteral, style, EnhancementsLiteral[FallbackStyle])
         IN  [exc |-> g.exc, ret |-> FString(prompt, g.value), dict |-> g.dict]

enhance_prompt(prompt, style) ==
    LET enhs == EnhancementsLiteral
        dflt == DictGetItem(enhs, FallbackStyle)      \* evaluated before .get is called
    IN  IF dflt.exc # ""
        THEN [exc |-> dflt.exc, ret |-> "", dict |-> enhs]
        ELSE LET g == DictGet(enhs, style, dflt.value)
             IN  IF g.exc # ""
                 THEN [exc |-> g.exc, ret |-> "", dict |-> g.dict]
                 ELSE [exc |-> "", ret |-> FString(prompt, g.value), dict |-> g.dict]

---------------------------------------------------------------------------
(* Spec: one caller; a call is one atomic action *)

NoCall == [fn |-> "none", prompt |-> "", style |-> "", given |-> TRUE, exc |-> "", ret |-> ""]

NoTable == [k \in {} |-> ""]
NoFrame == [prompt |-> "", style |-> "", table |-> NoTable, enhancement |-> ""]
Idle == [pc |-> "idle", fn |-> "none", prompt |-> "", style |-> "", exc |-> "", ret |-> ""]

Splits == {"train", "validation"}

\* writer.writerow(['text', 'image_path', 'category'])
HeaderRow == <<"text", "image_path", "category">>

\* sample_data of create_sample_dataset, as the rows written for it.
SampleRows ==
    << <<"a cute dog playing in the park", "sample_1.jpg", "animal">>,
       <<"a professional portrait of a human", "sample_2.jpg", "human">>,
       <<"a beautiful landscape with mountains", "sample_3.jpg", "landscape">>,
       <<"a modern car on the street", "sample_4.jpg", "vehicle">> >>

NoFile == [exists |-> FALSE, lines |-> <<>>]
NoPair == [text |-> "", image_path |-> ""]
NoTuning == [status |-> "none", dataset |-> <<>>, watched |-> NoPair]
NoAdd == [op |-> "none", split |-> "", existed |-> FALSE,
          wrote_header |-> FALSE, image_name |-> "", status |-> ""]

\* None, for a parameter that defaults to None.
None == "<None>"

\* TextToImageInterface.generator / TextToImageGenerator.pipeline before they are set.
NoGenerator == [model_name |-> None, pipeline |-> "None"]

NoKwargs == [k \in {} |-> ""]
NoOut == [op |-> "none", prompt |-> "", negative_prompt |-> "", num_images |-> 0,
          use_enhancement |-> FALSE, style |-> "", created |-> FALSE,
          model_name |-> None, handed |-> FALSE, handed_prompt |-> "",
          handed_negative |-> "", pipeline_before |-> "None", load_called |-> FALSE,
          load_exc |-> "", invoked |-> "not invoked", kwargs |-> NoKwargs,
          safe_prompt |-> "", paths |-> <<>>, failed |-> "", exc |-> "",
          images |-> 0, status |-> ""]

Init ==
    /\ generator = NoGenerator
    /\ loads = 0
    /\ loadRaised = FALSE
    /\ out = NoOut
    /\ csv = [sp \in Splits |-> NoFile]
    /\ fine_tuner = FALSE
    /\ tuning = NoTuning
    /\ watched = NoPair
    /\ lastAdd = NoAdd
    /\ enhancements = EnhancementsLiteral
    /\ negative_prompts = NegativePromptsLiteral
    /\ last = NoCall
    /\ ref = NoCall
    /\ between = FALSE
    /\ caller = [c \in Callers |-> Idle]
    /\ frames = [c \in Callers |-> NoFrame]

\* The observer: either keeps the call it remembers or remembers the call
\* that was the most recent one until now.
Remember ==
    \E keep \in BOOLEAN :
        /\ ref' = IF keep THEN ref ELSE last
        /\ between' = (keep /\ ref.fn # "none")

\* given: the style argument was passed (TRUE) or left to its default (FALSE).
NegativePromptCall(style, given) ==
    LET r == create_negative_prompt(style)
    IN  /\ negative_prompts' = r.dict
        /\ last' = [fn |-> "create_negative_prompt", prompt |-> "", style |-> style,
                    given |-> given, exc |-> r.exc, ret |-> r.ret]
        /\ Remember
        /\ UNCHANGED <<enhancements, concVars, dataVars, genVars>>

EnhancePromptCall(prompt, style, given) ==
    LET r == enhance_prompt(prompt, style)
    IN  /\ enhancements' = r.dict
        /\ last' = [fn |-> "enhance_prompt", prompt |-> prompt, style |-> style,
                    given |-> given, exc |-> r.exc, ret |-> r.ret]
        /\ Remember
        /\ UNCHANGED <<negative_prompts, concVars, dataVars, genVars>>

\* Mutant: the parameter default is another style.
StyleDefaultArtistic == "artistic"

\* def enhance_prompt(prompt, style="realistic")
StyleDefault == "realistic"

\* def create_negative_prompt(style="general")
CategoryDefault == "general"

\* create_negative_prompt(style)
CallCreateNegativePrompt(style) == NegativePromptCall(style, TRUE)

\* create_negative_prompt(): the parameter takes its default
CallCreateNegativePromptDefault == NegativePromptCall(CategoryDefault, FALSE)

\* enhance_prompt(prompt, style)
CallEnhancePrompt(prompt, style) == EnhancePromptCall(prompt, style, TRUE)

\* enhance_prompt(prompt): the parameter takes its default
CallEnhancePromptDefault(prompt) == EnhancePromptCall(prompt, StyleDefault, FALSE)

Next ==
    \/ \E style \in Categories : CallCreateNegativePrompt(style)
    \/ \E prompt \in Prompts, style \in Styles : CallEnhancePrompt(prompt, style)
    \/ CallCreateNegativePromptDefault
    \/ \E prompt \in Prompts : CallEnhancePromptDefault(prompt)

Spec == Init /\ [][Next]_vars

\* SpecCase: enhance_prompt called with styles that resemble recognized ones.
CaseStyles == {"Cinematic", " artistic", "artistic ", "REALISTIC", "\tprofessional\n",
               "cinematic", "artistic"}

NextCase == \E prompt \in Prompts, style \in CaseStyles : CallEnhancePrompt(prompt, style)

SpecCase == Init /\ [][NextCase]_vars

---------------------------------------------------------------------------
(* SpecConc: NumCallers callers; a call runs statement by statement, its    *)
(* parameters and locals living in the frame the call created.              *)

\* Mutant: the locals are module-level globals, one frame for every call.
FrameShared(c) == 1

\* The frame of caller c's call: every Python call gets a frame of its own.
Frame(c) == c

CanCall(c) == caller[c].pc \in {"idle", "returned", "raised"}

\* def create_negative_prompt(style): the call binds the parameter.
ConcCallNegative(c, style) ==
    /\ CanCall(c)
    /\ caller' = [caller EXCEPT ![c] =
                    [pc |-> "negative_195", fn |-> "create_negative_prompt",
                     prompt |-> "", style |-> style, exc |-> "", ret |-> ""]]
    /\ frames' = [frames EXCEPT ![Frame(c)] = [NoFrame EXCEPT !.style = style]]
    /\ UNCHANGED <<promptVars, dataVars, genVars>>

\* negative_prompts = {...}
ConcBuildNegatives(c) ==
    /\ caller[c].pc = "negative_195"
    /\ caller' = [caller EXCEPT ![c].pc = "negative_202"]
    /\ frames' = [frames EXCEPT ![Frame(c)].table = NegativePromptsLiteral]
    /\ UNCHANGED <<promptVars, dataVars, genVars>>

\* return negative_prompts.get(style, negative_prompts["general"])
ConcReturnNegative(c) ==
    /\ caller[c].pc = "negative_202"
    /\ LET f == frames[Frame(c)]
           dflt == DictGetItem(f.table, FallbackCategory)
           g == IF dflt.exc # "" THEN dflt ELSE DictGet(f.table, f.style, dflt.value)
       IN  caller' = [caller EXCEPT ![c].pc = IF g.exc # "" THEN "raised" ELSE "returned",
                                    ![c].exc = g.exc,
                                    ![c].ret = g.value]
    /\ frames' = [frames EXCEPT ![Frame(c)] = NoFrame]
    /\ UNCHANGED <<promptVars, dataVars, genVars>>

\* def enhance_prompt(prompt, style): the call binds the parameters.
ConcCallEnhance(c, prompt, style) ==
    /\ CanCall(c)
    /\ caller' = [caller EXCEPT ![c] =
                    [pc |-> "enhance_216", fn |-> "enhance_prompt",
                     prompt |-> prompt, style |-> style, exc |-> "", ret |-> ""]]
    /\ frames' = [frames EXCEPT ![Frame(c)] =
                    [NoFrame EXCEPT !.prompt = prompt, !.style = style]]
    /\ UNCHANGED <<promptVars, dataVars, genVars>>

\* enhancements = {...}
ConcBuildEnhancements(c) ==
    /\ caller[c].pc = "enhance_216"
    /\ caller' = [caller EXCEPT ![c].pc = "enhance_223"]
    /\ frames' = [frames EXCEPT ![Frame(c)].table = EnhancementsLiteral]
    /\ UNCHANGED <<promptVars, dataVars, genVars>>

\* enhancement = enhancements.get(style, enhancements["realistic"])
ConcGetEnhancement(c) ==
    /\ caller[c].pc = "enhance_223"
    /\ LET f == frames[Frame(c)]
           dflt == DictGetItem(f.table, FallbackStyle)
           g == IF dflt.exc # "" THEN dflt ELSE DictGet(f.table, f.style, dflt.value)
       IN  IF g.exc # ""
           THEN /\ caller' = [caller EXCEPT ![c].pc = "raised", ![c].exc = g.exc]
                /\ frames' = [frames EXCEPT ![Frame(c)] = NoFrame]
           ELSE /\ caller' = [caller EXCEPT ![c].pc = "enhance_224"]
                /\ frames' = [frames EXCEPT ![Frame(c)].enhancement = g.value]
    /\ UNCHANGED <<promptVars, dataVars, genVars>>

\* return f"{prompt}, {enhancement}"
ConcReturnEnhanced(c) ==
    /\ caller[c].pc = "enhance_224"
    /\ LET f == frames[Frame(c)]
       IN  caller' = [caller EXCEPT ![c].pc = "returned",
                                    ![c].ret = FString(f.prompt, f.enhancement)]
    /\ frames' = [frames EXCEPT ![Frame(c)] = NoFrame]
    /\ UNCHANGED <<promptVars, dataVars, genVars>>

ConcNext ==
    \/ \E c \in Callers, style \in ConcCategories : ConcCallNegative(c, style)
    \/ \E c \in Callers : ConcBuildNegatives(c)
    \/ \E c \in Callers : ConcReturnNegative(c)
    \/ \E c \in Callers, prompt \in ConcPrompts, style \in ConcStyles :
            ConcCallEnhance(c, prompt, style)
    \/ \E c \in Callers : ConcBuildEnhancements(c)
    \/ \E c \in Callers : ConcGetEnhancement(c)
    \/ \E c \in Callers : ConcReturnEnhanced(c)

SpecConc == Init /\ [][ConcNext]_vars

---------------------------------------------------------------------------
(* Claims about enhance_prompt and create_negative_prompt.  Under Spec they *)
(* are stated of last (every call passes through it) and of ref.            *)

IsEnhance(call) == call.fn = "enhance_prompt"
IsNegative(call) == call.fn = "create_negative_prompt"

\* C1: for every prompt p and every recognized style s, enhance_prompt(p, s)
\* is p, then the two characters comma-space, then exactly the suffix
\* registered for s: it starts with p + ", ", ends with the suffix, and has
\* nothing in between.
C1_RecognizedStyleSuffix ==
    (IsEnhance(last) /\ last.style \in RecognizedStyles) =>
        LET suffix == EnhancementsLiteral[last.style]
            n == Len(last.prompt)
        IN  /\ last.exc = ""
            /\ last.ret = last.prompt \o ", " \o suffix
            /\ SubSeq(last.ret, 1, n + 2) = last.prompt \o ", "
            /\ SubSeq(last.ret, n + 3, Len(last.ret)) = suffix
            /\ Len(last.ret) = n + 2 + Len(suffix)

C1_Witness ==
    /\ IsEnhance(last)
    /\ last.prompt = "A "
    /\ last.style = "artistic"
    /\ last.ret = "A , artistic, beautiful, masterpiece, high quality"

\* C2: for every prompt p and every style s outside the four recognized
\* styles, enhance_prompt(p, s) returns the same string as
\* enhance_prompt(p, "realistic"), and no error is signalled.
C2_UnknownStyleIsRealistic ==
    /\ (IsEnhance(last) /\ last.style \notin RecognizedStyles) =>
           /\ last.exc = ""
           /\ last.ret = enhance_prompt(last.prompt, "realistic").ret
    /\ (/\ IsEnhance(last) /\ last.style \notin RecognizedStyles
        /\ IsEnhance(ref) /\ ref.style = "realistic"
        /\ ref.prompt = last.prompt) =>
           (last.exc = "" /\ ref.exc = "" /\ last.ret = ref.ret)

C2_Witness ==
    /\ IsEnhance(last) /\ last.style = "bogus" /\ last.prompt = "a cute dog"
    /\ IsEnhance(ref) /\ ref.style = "realistic" /\ ref.prompt = "a cute dog"
    /\ last.exc = ""
    /\ last.ret = "a cute dog, photorealistic, high quality, detailed, 8k resolution"

\* C3: for every category outside general, portrait, landscape, object,
\* create_negative_prompt returns the general entry verbatim, the string
\* create_negative_prompt("general") returns.
C3_UnknownCategoryIsGeneral ==
    /\ (IsNegative(last) /\ last.style \notin RecognizedCategories) =>
           /\ last.exc = ""
           /\ last.ret = create_negative_prompt("general").ret
           /\ last.ret = NegativePromptsLiteral["general"]
    /\ (/\ IsNegative(last) /\ last.style \notin RecognizedCategories
        /\ IsNegative(ref) /\ ref.style = "general") =>
           (last.exc = "" /\ ref.exc = "" /\ last.ret = ref.ret)

C3_Witness ==
    /\ IsNegative(last) /\ last.style = "unknown-category"
    /\ IsNegative(ref) /\ ref.style = "general"
    /\ last.ret = "blurry, low quality, distorted, deformed, bad anatomy, bad proportions"

\* C4: for each recognized category create_negative_prompt returns that
\* category's own registered string and not the fallback; portrait and
\* general give the two strings written out here.
C4_RecognizedCategoryOwnEntry ==
    (IsNegative(last) /\ last.style \in RecognizedCategories) =>
        /\ last.exc = ""
        /\ last.ret = NegativePromptsLiteral[last.style]
        /\ last.style # "general" => last.ret # NegativePromptsLiteral["general"]
        /\ last.style = "portrait" =>
             last.ret = "blurry, low quality, bad face, deformed face, extra limbs, bad anatomy"
        /\ last.style = "general" =>
             last.ret = "blurry, low quality, distorted, deformed, bad anatomy, bad proportions"

C4_Witness ==
    /\ IsNegative(last) /\ last.style = "portrait"
    /\ last.ret = "blurry, low quality, bad face, deformed face, extra limbs, bad anatomy"

IsBlank(str) == \A i \in 1 .. Len(str) : SubSeq(str, i, i) = " "

\* C5: enhance_prompt neither trims, case-normalizes nor validates the
\* prompt: the prompt is, character for character, the prefix of the result
\* and is followed by ", "; an empty prompt gives a result beginning with
\* ", ", enhance_prompt("", "realistic") is the string written out here, and
\* a whitespace-only prompt is kept unchanged.
C5_PromptKeptVerbatim ==
    IsEnhance(last) =>
        LET n == Len(last.prompt)
        IN  /\ last.exc = ""
            /\ Len(last.ret) > n + 2
            /\ SubSeq(last.ret, 1, n) = last.prompt
            /\ SubSeq(last.ret, n + 1, n + 2) = ", "
            /\ last.prompt = "" => SubSeq(last.ret, 1, 2) = ", "
            /\ (last.prompt = "" /\ last.style = "realistic") =>
                 last.ret = ", photorealistic, high quality, detailed, 8k resolution"
            /\ (IsBlank(last.prompt) /\ n > 0) =>
                 \A i \in 1 .. n : SubSeq(last.ret, i, i) = " "

C5_Witness ==
    /\ IsEnhance(last) /\ last.prompt = "" /\ last.style = "realistic"
    /\ last.ret = ", photorealistic, high quality, detailed, 8k resolution"
    /\ IsEnhance(ref) /\ ref.prompt = "  " /\ SubSeq(ref.ret, 1, 4) = "  , "

\* C6: enhance_prompt("a cute dog", "cinematic") returns exactly
\* "a cute dog, cinematic lighting, dramatic, high quality, film photography".
C6_CuteDogCinematic ==
    (IsEnhance(last) /\ last.prompt = "a cute dog" /\ last.style = "cinematic") =>
        /\ last.exc = ""
        /\ last.ret = "a cute dog, cinematic lighting, dramatic, high quality, film photography"

C6_Witness ==
    /\ IsEnhance(last) /\ last.prompt = "a cute dog" /\ last.style = "cinematic"
    /\ last.exc = ""
    /\ Len(last.ret) = 72

\* C7: both functions are total over string arguments: whatever the prompt,
\* style and category, recognized or not, empty or not, the call completes
\* and returns a string; no sequence of calls reaches an error outcome.
C7_NoCallRaises ==
    /\ last.exc = ""
    /\ ref.exc = ""
    /\ last.ret \in STRING
    /\ ref.ret \in STRING
    /\ last.fn # "none" => Len(last.ret) > 0

C7_Witness ==
    /\ IsEnhance(last) /\ last.prompt = "" /\ last.style = ""
    /\ IsNegative(ref) /\ ref.style = ""
    /\ last.exc = "" /\ ref.exc = ""
    /\ Len(last.ret) > 0 /\ Len(ref.ret) > 0

\* C8: two calls of the same function with identical arguments return equal
\* strings, whatever calls happened in between.
C8_SameArgumentsSameResult ==
    (/\ ref.fn # "none"
     /\ ref.fn = last.fn /\ ref.prompt = last.prompt /\ ref.style = last.style) =>
        (ref.exc = last.exc /\ ref.ret = last.ret)

C8_Witness ==
    /\ IsEnhance(ref) /\ IsEnhance(last)
    /\ ref.prompt = "A" /\ last.prompt = "A"
    /\ ref.style = "bogus" /\ last.style = "bogus"
    /\ between
    /\ ref.ret = last.ret

\* C9: the two tables are read-only with fixed key sets: in every reachable
\* state the enhancement table has exactly the keys realistic, artistic,
\* professional, cinematic and the negative table exactly general, portrait,
\* landscape, object, each mapped to its initial value; a lookup with an
\* unknown key adds no entry.
C9_TablesFixed ==
    /\ DOMAIN enhancements = {"realistic", "artistic", "professional", "cinematic"}
    /\ DOMAIN negative_prompts = {"general", "portrait", "landscape", "object"}
    /\ \A k \in DOMAIN enhancements : enhancements[k] = EnhancementsLiteral[k]
    /\ \A k \in DOMAIN negative_prompts : negative_prompts[k] = NegativePromptsLiteral[k]

C9_Witness ==
    /\ IsEnhance(last) /\ last.style = "bogus"
    /\ IsNegative(ref) /\ ref.style = "unknown-category"
    /\ "bogus" \notin DOMAIN enhancements
    /\ "unknown-category" \notin DOMAIN negative_prompts
    /\ Cardinality(DOMAIN enhancements) = 4
    /\ Cardinality(DOMAIN negative_prompts) = 4

\* C10: the two functions may be called concurrently by any number of
\* callers: under every interleaving of their statements each call returns
\* the string it returns when run alone, and none raises.
C10_InterleavedAsAlone ==
    \A c \in Callers :
        /\ caller[c].pc # "raised"
        /\ caller[c].pc = "returned" =>
             /\ caller[c].exc = ""
             /\ IsEnhance(caller[c]) =>
                  caller[c].ret = enhance_prompt(caller[c].prompt, caller[c].style).ret
             /\ IsNegative(caller[c]) =>
                  caller[c].ret = create_negative_prompt(caller[c].style).ret

C10_Witness ==
    /\ caller[1].pc = "returned" /\ IsEnhance(caller[1])
    /\ caller[1].ret = "a cute dog, cinematic lighting, dramatic, high quality, film photography"
    /\ caller[2].pc = "enhance_224"
    /\ frames[Frame(2)].prompt = ""
    /\ frames[Frame(2)].enhancement = "photorealistic, high quality, detailed, 8k resolution"

\* C11: with the style omitted, enhance_prompt(p) equals
\* enhance_prompt(p, "realistic") for every prompt p; with the category
\* omitted, create_negative_prompt() equals create_negative_prompt("general").
C11_DefaultArguments ==
    /\ (IsEnhance(last) /\ ~last.given) =>
           /\ last.exc = ""
           /\ last.ret = enhance_prompt(last.prompt, "realistic").ret
           /\ (IsEnhance(ref) /\ ref.given /\ ref.style = "realistic"
               /\ ref.prompt = last.prompt) => last.ret = ref.ret
    /\ (IsNegative(last) /\ ~last.given) =>
           /\ last.exc = ""
           /\ last.ret = create_negative_prompt("general").ret
           /\ (IsNegative(ref) /\ ref.given /\ ref.style = "general") => last.ret = ref.ret

C11_Witness ==
    /\ IsEnhance(last) /\ ~last.given /\ last.prompt = "A"
    /\ last.ret = "A, photorealistic, high quality, detailed, 8k resolution"
    /\ IsNegative(ref) /\ ~ref.given
    /\ ref.ret = "blurry, low quality, distorted, deformed, bad anatomy, bad proportions"

\* C13: the style lookup of enhance_prompt is an exact, case-sensitive match
\* with no trimming: a style that differs from a recognized one only in
\* letter case or surrounding whitespace is unrecognized and yields the
\* realistic suffix, not the suffix of the style it resembles.
C13_StyleMatchIsExact ==
    (IsEnhance(last) /\ last.style \notin RecognizedStyles
        /\ Lower(Strip(last.style)) \in RecognizedStyles) =>
        /\ last.exc = ""
        /\ last.ret = last.prompt \o ", "
                        \o "photorealistic, high quality, detailed, 8k resolution"
        /\ Lower(Strip(last.style)) # "realistic" =>
             last.ret # last.prompt \o ", " \o EnhancementsLiteral[Lower(Strip(last.style))]

C13_Witness ==
    /\ IsEnhance(last) /\ last.style = "Cinematic" /\ last.prompt = "a cute dog"
    /\ last.ret = "a cute dog, photorealistic, high quality, detailed, 8k resolution"
    /\ IsEnhance(ref) /\ ref.style = " artistic" /\ ref.prompt = "a cute dog"
    /\ ref.ret = last.ret

---------------------------------------------------------------------------
(* SpecData: the dataset CSVs (src/src/dataset.py), the UI's Add Training   *)
(* Data and Start Fine-tuning handlers (src/src/app.py) and                 *)
(* TextToImageFineTuner.prepare_dataset (src/src/fine_tuner.py).            *)
(* A CSV file is the sequence of its rows; a row is <<text, image, cat>>.   *)

TrainTexts == {"text"}
ValidationTexts == {"a held-out cat"}
TextsOf(split) == IF split = "train" THEN TrainTexts ELSE ValidationTexts

\* list(csv.DictReader(f)): the first row names the fields, the others are data.
DictReaderRows(lines) == IF Len(lines) = 0 THEN <<>> ELSE Tail(lines)

\* Mutant: the header is written on every call.
WritesHeaderAlways(existing_data) == TRUE

\* if not existing_data:  # Write header if file is new
WritesHeader(existing_data) == Len(existing_data) = 0

\* Mutant: every stored image gets the first name.
CustomImageNameFirst(next_id) == "custom_1.jpg"

\* f"custom_{next_id}.jpg"
CustomImageName(next_id) == "custom_" \o ToString(next_id) \o ".jpg"

\* What add_custom_data(text_prompt, image_path, split) does to the CSV of
\* split when copying the image succeeds.
AddedTo(file, text_prompt) ==
    LET existing_data == IF file.exists THEN DictReaderRows(file.lines) ELSE <<>>
        next_id == Len(existing_data) + 1
        image_name == CustomImageName(next_id)
        header == IF WritesHeader(existing_data) THEN <<HeaderRow>> ELSE <<>>
    IN  [image_name |-> image_name,
         wrote_header |-> WritesHeader(existing_data),
         file |-> [exists |-> TRUE,
                   lines |-> file.lines \o header \o <<<<text_prompt, image_name, "custom">>>>]]

CanAdd(split) == Len(DictReaderRows(csv[split].lines)) < MaxRows

\* Either keeps the pair it remembers or remembers the pair just added.
Watch(pair) == watched' \in {watched, pair}

\* DatasetCreator().add_custom_data(text_prompt, image_path, split); copy_ok:
\* whether shutil.copy2 of the image succeeds (it raises before the CSV is
\* opened for appending).
AddCustomData(text_prompt, split, copy_ok) ==
    LET a == AddedTo(csv[split], text_prompt)
    IN  /\ CanAdd(split)
        /\ lastAdd' = [op |-> "add_custom_data", split |-> split,
                       existed |-> csv[split].exists,
                       wrote_header |-> copy_ok /\ a.wrote_header,
                       image_name |-> a.image_name,
                       status |-> IF copy_ok THEN "added" ELSE "raised"]
        /\ IF copy_ok
           THEN /\ csv' = [csv EXCEPT ![split] = a.file]
                /\ IF split = "train"
                   THEN Watch([text |-> text_prompt, image_path |-> a.image_name])
                   ELSE UNCHANGED watched
           ELSE UNCHANGED <<csv, watched>>
        /\ UNCHANGED <<fine_tuner, tuning, promptVars, concVars, genVars>>

\* TextToImageInterface.create_training_data(text_prompt, image): the UI's
\* Add Training Data.  fail: "none", or the step that raises.
CreateTrainingData(text_prompt, has_image, fail) ==
    LET a == AddedTo(csv["train"], text_prompt)
        rejected == Strip(text_prompt) = "" \/ ~has_image
        ok == ~rejected /\ fail = "none"
    IN  /\ CanAdd("train")
        /\ lastAdd' = [op |-> "create_training_data", split |-> "train",
                       existed |-> csv["train"].exists,
                       wrote_header |-> ok /\ a.wrote_header,
                       image_name |-> IF rejected \/ fail = "save" THEN "" ELSE a.image_name,
                       status |-> IF Strip(text_prompt) = "" THEN "no prompt"
                                  ELSE IF ~has_image THEN "no image"
                                  ELSE IF fail # "none" THEN "error"
                                  ELSE "added"]
        /\ IF ok
           THEN /\ csv' = [csv EXCEPT !["train"] = a.file]
                /\ Watch([text |-> text_prompt, image_path |-> a.image_name])
           ELSE UNCHANGED <<csv, watched>>
        /\ UNCHANGED <<fine_tuner, tuning, promptVars, concVars, genVars>>

\* open(path, 'w') ... writerow(header), then the first n sample rows: the
\* file is truncated, whatever it held.
SampleFile(file, n) ==
    [exists |-> TRUE, lines |-> <<HeaderRow>> \o SubSeq(SampleRows, 1, n)]

\* The CSVs after DatasetCreator.create_sample_dataset(): 4 rows for train,
\* the first 2 for validation.
SampleDataset ==
    [sp \in Splits |-> IF sp = "train" THEN SampleFile(csv[sp], 4) ELSE SampleFile(csv[sp], 2)]

\* DatasetCreator().create_sample_dataset(), called by the user (main.py).
CreateSampleDataset ==
    /\ csv' = SampleDataset
    /\ watched' = NoPair
    /\ UNCHANGED <<fine_tuner, tuning, lastAdd, promptVars, concVars, genVars>>

\* TextImageDataset.load_data: text and image_path of every data row.
LoadData(file) ==
    IF ~file.exists THEN <<>>
    ELSE LET rows == DictReaderRows(file.lines)
         IN  [i \in 1 .. Len(rows) |-> [text |-> rows[i][1], image_path |-> rows[i][2]]]

\* The CSVs after prepare_dataset() as start_fine_tuning calls it: train_csv
\* is None, so create_sample is taken and create_sample_dataset() runs.
Prepared == SampleDataset

\* TextToImageInterface.start_fine_tuning(); fail: "none", or the step that
\* raises: "init" (TextToImageFineTuner()), "text_processor" (TextProcessor()
\* in prepare_dataset), "train" (fine_tuner.train).
StartFineTuning(fail) ==
    /\ fail = "init" => ~fine_tuner
    /\ IF fail = "init"
       THEN /\ tuning' = [status |-> "error", dataset |-> <<>>, watched |-> watched]
            /\ UNCHANGED <<csv, fine_tuner>>
       ELSE /\ fine_tuner' = TRUE
            /\ csv' = Prepared
            /\ LET train_dataset == LoadData(Prepared["train"])
               IN  tuning' =
                     IF fail = "text_processor"
                     THEN [status |-> "error", dataset |-> <<>>, watched |-> watched]
                     ELSE IF Len(train_dataset) = 0
                     THEN [status |-> "no data", dataset |-> <<>>, watched |-> watched]
                     ELSE [status |-> IF fail = "train" THEN "error" ELSE "completed",
                           dataset |-> train_dataset, watched |-> watched]
    /\ UNCHANGED <<watched, lastAdd, promptVars, concVars, genVars>>

DataNext ==
    \/ \E sp \in Splits : \E text \in TextsOf(sp), copy_ok \in BOOLEAN :
            AddCustomData(text, sp, copy_ok)
    \/ \E text \in TrainTexts \cup {" "}, has_image \in BOOLEAN,
          fail \in {"none", "save", "copy"} :
            CreateTrainingData(text, has_image, fail)
    \/ CreateSampleDataset
    \/ \E fail \in {"none", "init", "text_processor", "train"} : StartFineTuning(fail)

SpecData == Init /\ [][DataNext]_vars

Range(seq) == {seq[i] : i \in 1 .. Len(seq)}

\* C12: fine-tuning trains on the user's custom data: every text-image pair
\* added to the train split before start_fine_tuning is started is a row of
\* data/train/dataset.csv, and so an item of the training dataset, when
\* training begins.
C12_CustomDataIsTrainedOn ==
    (tuning.dataset # <<>> /\ tuning.watched # NoPair) =>
        tuning.watched \in Range(tuning.dataset)

\* C20: after any sequence of create_sample_dataset and add_custom_data calls
\* from an empty data directory, each split's dataset.csv has exactly one
\* header row, and it is the first line; add_custom_data writes the header
\* only if the file is new.
C20_OneHeaderFirst ==
    /\ \A sp \in Splits :
         csv[sp].exists =>
            /\ Len(csv[sp].lines) >= 1
            /\ csv[sp].lines[1] = HeaderRow
            /\ \A i \in 2 .. Len(csv[sp].lines) : csv[sp].lines[i] # HeaderRow
    /\ lastAdd.wrote_header => ~lastAdd.existed

C20_Witness ==
    /\ Len(csv["train"].lines) = 6
    /\ csv["train"].lines[6] = <<"text", "custom_5.jpg", "custom">>
    /\ Len(csv["validation"].lines) = 3
    /\ csv["validation"].lines[2] = <<"a held-out cat", "custom_1.jpg", "custom">>
    /\ lastAdd.op = "add_custom_data" /\ lastAdd.existed /\ ~lastAdd.wrote_header

---------------------------------------------------------------------------
(* SpecGen: TextToImageGenerator (src/src/generator.py), the model table    *)
(* (src/src/config.py) and TextToImageInterface.generate_image              *)
(* (src/src/app.py).  A pipeline is "None", "unmoved" (created by           *)
(* from_pretrained, not yet moved to the device) or "ready".                *)

\* MODELS of config.py; guidance_scale in tenths (0.0, 7.5, 7.5).
MODELS ==
    [m \in {"flux_schnell", "small_stable_diffusion", "cpu_compatible"} |->
        CASE m = "flux_schnell" ->
               [name |-> "black-forest-labs/FLUX.1-schnell", inference_steps |-> 4,
                guidance_scale |-> 0, width |-> 1024, height |-> 1024]
          [] m = "small_stable_diffusion" ->
               [name |-> "OFA-Sys/small-stable-diffusion-v0", inference_steps |-> 20,
                guidance_scale |-> 75, width |-> 512, height |-> 512]
          [] m = "cpu_compatible" ->
               [name |-> "CompVis/stable-diffusion-v1-4", inference_steps |-> 10,
                guidance_scale |-> 75, width |-> 512, height |-> 512]]

\* OUTPUT_CONFIG of config.py
SaveDirectory == "outputs/generated"
ImageFormat == "PNG"

\* safe_prompt[:50]
SafePromptLen == 50

\* The truth value of a str or None argument.
Truthy(x) == x \notin {None, ""}

Digits == <<"0", "1", "2", "3", "4", "5", "6", "7", "8", "9">>

\* The characters str.isalnum() accepts here: ASCII letters and digits.
AlnumChars ==
    {UpperLetters[i] : i \in 1 .. 26} \cup {LowerLetters[i] : i \in 1 .. 26}
        \cup {Digits[i] : i \in 1 .. 10}

\* str.isalnum() of one character
IsAlnum(ch) == ch \in AlnumChars

\* Mutant: every character is kept.
KeptInFilenameAll(ch) == TRUE

\* c.isalnum() or c in (' ', '-', '_')
KeptInFilename(ch) == IsAlnum(ch) \/ ch \in {" ", "-", "_"}

\* "".join(c for c in prompt if ...): the kept characters in their order.
\* The string is filtered by halves, which keeps the evaluation shallow.
RECURSIVE FilterKept(_)
FilterKept(str) ==
    IF Len(str) = 0 THEN str
    ELSE IF Len(str) = 1 THEN (IF KeptInFilename(str) THEN str ELSE "")
    ELSE LET half == Len(str) \div 2
         IN  FilterKept(SubSeq(str, 1, half)) \o FilterKept(SubSeq(str, half + 1, Len(str)))

\* str.rstrip(): the string up to its last character that is not whitespace.
RStrip(str) ==
    LET solid == {i \in 1 .. Len(str) : SubSeq(str, i, i) \notin Whitespace}
    IN  IF solid = {} THEN ""
        ELSE SubSeq(str, 1, CHOOSE i \in solid : \A j \in solid : j <= i)

\* str[:n]
FirstChars(str, n) == IF Len(str) <= n THEN str ELSE SubSeq(str, 1, n)

\* save_images: the safe filename part made from the prompt.
SafePrompt(prompt) == FirstChars(RStrip(FilterKept(prompt)), SafePromptLen)

\* os.path.join(output_dir, f"{safe_prompt}_{timestamp}_{i+1}.{format.lower()}")
\* for the image at position i (counted from 1 here).
FilePath(safe_prompt, timestamp, i) ==
    SaveDirectory \o "/" \o safe_prompt \o "_" \o timestamp \o "_" \o ToString(i)
        \o "." \o Lower(ImageFormat)

\* save_images(images, prompt): the paths, one per image, in order.
SavedPaths(n_images, prompt, timestamp) ==
    LET safe_prompt == SafePrompt(prompt)
    IN  [i \in 1 .. n_images |-> FilePath(safe_prompt, timestamp, i)]

\* Mutant: the model is loaded on every call.
NeedsLoadAlways(pipeline) == TRUE

\* if self.pipeline is None: self.load_model()
NeedsLoad(pipeline) == pipeline = "None"

\* load_model(): the pipeline it leaves and the exception it raises.
\* from_pretrained raises before self.pipeline is assigned; .to(device) raises
\* after self.pipeline was assigned the created pipeline.
LoadModel(fail) ==
    IF fail = "from_pretrained" THEN [pipeline |-> "None", exc |-> "from_pretrained failed"]
    ELSE IF fail = "to_device" THEN [pipeline |-> "unmoved", exc |-> "to(device) failed"]
    ELSE [pipeline |-> "ready", exc |-> ""]

\* Mutant: the negative prompt is passed whenever it is given.
WithNegativeAlways(kwargs, negative_prompt) ==
    IF Truthy(negative_prompt)
    THEN ("negative_prompt" :> negative_prompt) @@ kwargs
    ELSE kwargs

\* if negative_prompt and "guidance_scale" in generation_kwargs: ...
WithNegative(kwargs, negative_prompt) ==
    IF Truthy(negative_prompt) /\ "guidance_scale" \in DOMAIN kwargs
    THEN ("negative_prompt" :> negative_prompt) @@ kwargs
    ELSE kwargs

\* generation_kwargs as generate_image builds them.
GenerationKwargs(model_name, prompt, negative_prompt, num_images) ==
    LET config == MODELS[model_name]
        base == [prompt |-> prompt, num_images_per_prompt |-> num_images,
                 num_inference_steps |-> config.inference_steps,
                 width |-> config.width, height |-> config.height]
        guided == IF config.guidance_scale > 0
                  THEN ("guidance_scale" :> config.guidance_scale) @@ base
                  ELSE base
    IN  WithNegative(guided, negative_prompt)

\* generate_and_save(prompt, negative_prompt, num_images) on generator g:
\* generate_image then save_images.  fail names the step that raises
\* ("none": no step does); timestamp is datetime.now() formatted.
GenerateAndSave(g, prompt, negative_prompt, num_images, fail, timestamp) ==
    LET need == NeedsLoad(g.pipeline)
        ld == IF need THEN LoadModel(fail) ELSE [pipeline |-> g.pipeline, exc |-> ""]
        base == [pipeline |-> ld.pipeline, load_called |-> need, load_exc |-> ld.exc,
                 invoked |-> "not invoked", kwargs |-> NoKwargs, safe_prompt |-> "",
                 paths |-> <<>>, images |-> 0, exc |-> ld.exc]
    IN  IF ld.exc # "" THEN base
        ELSE LET kwargs == GenerationKwargs(g.model_name, prompt, negative_prompt, num_images)
                 called == [base EXCEPT !.invoked = ld.pipeline, !.kwargs = kwargs]
             IN  IF fail = "pipeline"
                 THEN [called EXCEPT !.exc = "pipeline failed"]
                 ELSE IF fail = "save"
                 THEN [called EXCEPT !.exc = "save failed",
                                     !.safe_prompt = SafePrompt(prompt)]
                 ELSE [called EXCEPT !.images = num_images,
                                     !.safe_prompt = SafePrompt(prompt),
                                     !.paths = SavedPaths(num_images, prompt, timestamp)]

\* The emoji of the status messages, which TLA+ strings cannot hold.
CrossMark == "<U+274C>"
CheckMark == "<U+2705>"

\* ', '.join(saved_paths)
RECURSIVE JoinPaths(_)
JoinPaths(paths) ==
    IF Len(paths) = 0 THEN ""
    ELSE IF Len(paths) = 1 THEN paths[1]
    ELSE paths[1] \o ", " \o JoinPaths(Tail(paths))

\* Mutant: the enhancement is skipped only for the empty prompt.
ShouldEnhanceNoStrip(use_enhancement, prompt) == use_enhancement /\ prompt # ""

\* if use_enhancement and prompt.strip():
ShouldEnhance(use_enhancement, prompt) == use_enhancement /\ Strip(prompt) # ""

\* Mutant: the handler reports the error and raises it again.
AppOutcomeReraise(exc, n_images, paths) ==
    IF exc # ""
    THEN [exc |-> exc, images |-> 0,
          status |-> CrossMark \o " Error generating image: " \o exc]
    ELSE [exc |-> "", images |-> n_images,
          status |-> CheckMark \o " Generated " \o ToString(n_images)
                       \o " image(s) successfully!\\nSaved to: " \o JoinPaths(paths)]

\* What generate_image of the interface returns: the try body's result, or,
\* from except Exception, the empty list and the error message.
AppOutcome(exc, n_images, paths) ==
    IF exc # ""
    THEN [exc |-> "", images |-> 0,
          status |-> CrossMark \o " Error generating image: " \o exc]
    ELSE [exc |-> "", images |-> n_images,
          status |-> CheckMark \o " Generated " \o ToString(n_images)
                       \o " image(s) successfully!\\nSaved to: " \o JoinPaths(paths)]

\* The model initialize_generator() creates when called without a model name.
InterfaceModel == "flux_schnell"

LoadFails == {"from_pretrained", "to_device"}

\* A call that would call load_model is taken only below the counting bound.
CountLoad(called, raised) ==
    /\ called => loads < MaxLoads
    /\ loads' = IF called THEN loads + 1 ELSE loads
    /\ loadRaised' = (loadRaised \/ raised)

\* TextToImageInterface.initialize_generator(model_name), on an interface
\* that has no generator yet.
InitializeGenerator(model_name) ==
    /\ generator = NoGenerator
    /\ generator' = [model_name |-> model_name, pipeline |-> "None"]
    /\ UNCHANGED <<loads, loadRaised, out, promptVars, concVars, dataVars>>

\* generator.generate_and_save(prompt, negative_prompt, num_images) called on
\* the generator itself; the exception, if any, reaches the caller.
\* r is the one result of the call.
GeneratorGenerateAndSave(prompt, negative_prompt, num_images, fail, timestamp) ==
    /\ generator # NoGenerator
    /\ fail \in LoadFails => NeedsLoad(generator.pipeline)
    /\ \E r \in {GenerateAndSave(generator, prompt, negative_prompt, num_images,
                                  fail, timestamp)} :
        /\ CountLoad(r.load_called, r.load_exc # "")
        /\ generator' = [generator EXCEPT !.pipeline = r.pipeline]
        /\ out' = [NoOut EXCEPT
                     !.op = "generator", !.prompt = prompt,
                     !.negative_prompt = negative_prompt, !.num_images = num_images,
                     !.model_name = generator.model_name, !.handed = TRUE,
                     !.handed_prompt = prompt, !.handed_negative = negative_prompt,
                     !.pipeline_before = generator.pipeline,
                     !.load_called = r.load_called, !.load_exc = r.load_exc,
                     !.invoked = r.invoked, !.kwargs = r.kwargs,
                     !.safe_prompt = r.safe_prompt, !.paths = r.paths,
                     !.failed = IF r.exc # "" THEN fail ELSE "",
                     !.exc = r.exc, !.images = r.images]
    /\ UNCHANGED <<promptVars, concVars, dataVars>>

\* The prompt generate_image of the interface hands to the generator.
EnhancedPrompt(prompt, use_enhancement, style) ==
    IF ShouldEnhance(use_enhancement, prompt)
    THEN enhance_prompt(prompt, style).ret
    ELSE prompt

\* if not negative_prompt.strip(): negative_prompt = create_negative_prompt()
NegativeOrDefault(negative_prompt) ==
    IF Strip(negative_prompt) = ""
    THEN create_negative_prompt(CategoryDefault).ret
    ELSE negative_prompt

\* TextToImageInterface.generate_image(prompt, negative_prompt, num_images,
\* seed, use_enhancement, enhancement_style), the whole handler.
\* fail = "construct": TextToImageGenerator(...) raises in initialize_generator.
\* r is the one result of generate_and_save, o what the handler returns.
AppGenerateImage(prompt, negative_prompt, num_images, use_enhancement, style, fail, timestamp) ==
    LET created == generator = NoGenerator
        g == IF created THEN [model_name |-> InterfaceModel, pipeline |-> "None"]
             ELSE generator
        given == [NoOut EXCEPT
                    !.op = "app", !.prompt = prompt, !.negative_prompt = negative_prompt,
                    !.num_images = num_images, !.use_enhancement = use_enhancement,
                    !.style = style]
    IN  /\ fail = "construct" => created
        /\ fail \in LoadFails => NeedsLoad(g.pipeline)
        /\ IF fail = "construct"
           THEN \E o \in {AppOutcome("generator construction failed", 0, <<>>)} :
                    /\ out' = [given EXCEPT !.failed = fail, !.exc = o.exc,
                                            !.images = o.images, !.status = o.status]
                    /\ UNCHANGED <<generator, loads, loadRaised>>
           ELSE \E enhanced_prompt \in {EnhancedPrompt(prompt, use_enhancement, style)},
                   negative \in {NegativeOrDefault(negative_prompt)} :
                \E r \in {GenerateAndSave(g, enhanced_prompt, negative, num_images,
                                          fail, timestamp)} :
                \E o \in {AppOutcome(r.exc, r.images, r.paths)} :
                    /\ CountLoad(r.load_called, r.load_exc # "")
                    /\ generator' = [g EXCEPT !.pipeline = r.pipeline]
                    /\ out' = [given EXCEPT
                                 !.created = created, !.model_name = g.model_name,
                                 !.handed = TRUE, !.handed_prompt = enhanced_prompt,
                                 !.handed_negative = negative,
                                 !.pipeline_before = g.pipeline,
                                 !.load_called = r.load_called, !.load_exc = r.load_exc,
                                 !.invoked = r.invoked, !.kwargs = r.kwargs,
                                 !.safe_prompt = r.safe_prompt, !.paths = r.paths,
                                 !.failed = IF r.exc # "" THEN fail ELSE "",
                                 !.exc = o.exc, !.images = o.images,
                                 !.status = o.status]
        /\ UNCHANGED <<promptVars, concVars, dataVars>>

ModelNames == DOMAIN MODELS
DirectPrompts == {"a cute dog"}
GenPrompts == {" ", "../a.b/c_d-1 "}
AppNegatives == {"", "ugly"}
GenNegatives == {None, "ugly"}
GenStyles == {"cinematic"}
Timestamps == {"20240131_235959"}
GenFails == {"none", "from_pretrained", "to_device", "pipeline", "save"}

GenNext ==
    \/ \E model_name \in ModelNames : InitializeGenerator(model_name)
    \/ \E prompt \in DirectPrompts, negative \in GenNegatives, n \in 1 .. MaxImages,
          fail \in GenFails, ts \in Timestamps :
            GeneratorGenerateAndSave(prompt, negative, n, fail, ts)
    \/ \E prompt \in GenPrompts, negative \in AppNegatives, n \in 1 .. MaxImages,
          use \in BOOLEAN, style \in GenStyles,
          fail \in GenFails \cup {"construct"}, ts \in Timestamps :
            AppGenerateImage(prompt, negative, n, use, style, fail, ts)

SpecGen == Init /\ [][GenNext]_vars

(***************************************************************************)
(* Claims about the generator and the interface's generate_image (SpecGen). *)
(***************************************************************************)

\* The last call reached the generator (out.handed) through the interface.
IsAppCall == out.op = "app" /\ out.handed

\* The pipeline was invoked by the last call.
PipelineInvoked == out.invoked # "not invoked"

StartsWith(str, prefix) ==
    Len(str) >= Len(prefix) /\ SubSeq(str, 1, Len(prefix)) = prefix

HasChar(str, ch) == \E i \in 1 .. Len(str) : SubSeq(str, i, i) = ch

\* C14: generate_image of the interface enhances the prompt exactly when
\* use_enhancement is true and prompt.strip() is not empty; the prompt handed
\* to the generator is then enhance_prompt(prompt, enhancement_style), and in
\* every other case it is the user's prompt unchanged.
C14_EnhancesExactlyWhenAsked ==
    IsAppCall =>
        /\ (out.use_enhancement /\ Strip(out.prompt) # "")
             => out.handed_prompt = enhance_prompt(out.prompt, out.style).ret
        /\ ~(out.use_enhancement /\ Strip(out.prompt) # "")
             => out.handed_prompt = out.prompt
        /\ (out.handed_prompt # out.prompt)
             <=> (out.use_enhancement /\ Strip(out.prompt) # "")

C14_Witness ==
    /\ IsAppCall
    /\ out.use_enhancement
    /\ Strip(out.prompt) # ""
    /\ out.handed_prompt = FString(out.prompt, EnhancementsLiteral[out.style])

\* C15: the pipeline gets the argument negative_prompt exactly when the
\* negative prompt given to the generator is not empty and the model's
\* guidance_scale is greater than 0; the generator the interface creates is
\* flux_schnell, whose guidance_scale is 0, so there no negative prompt, the
\* default one of create_negative_prompt included, reaches the pipeline.
C15_NegativePromptWhenSupported ==
    /\ PipelineInvoked =>
        /\ ("negative_prompt" \in DOMAIN out.kwargs)
             <=> (/\ out.handed_negative \notin {None, ""}
                  /\ MODELS[out.model_name].guidance_scale > 0)
        /\ "negative_prompt" \in DOMAIN out.kwargs
             => out.kwargs["negative_prompt"] = out.handed_negative
        /\ out.model_name = "flux_schnell" => "negative_prompt" \notin DOMAIN out.kwargs
    /\ out.created => out.model_name = "flux_schnell"
    /\ (IsAppCall /\ Strip(out.negative_prompt) = "")
         => out.handed_negative = NegativePromptsLiteral["general"]

C15_Witness ==
    /\ IsAppCall
    /\ out.created
    /\ PipelineInvoked
    /\ out.negative_prompt = ""
    /\ out.handed_negative = NegativePromptsLiteral["general"]
    /\ "negative_prompt" \notin DOMAIN out.kwargs

\* C16: generate_image of the interface never lets a failure reach its
\* caller: when the construction of the generator, the model load, the
\* generation or the saving fails it returns no image and a message that
\* starts with the cross mark and "Error generating image:"; when nothing
\* fails it returns the images and a success status.
C16_NeverPropagates ==
    out.op = "app" =>
        /\ out.exc = ""
        /\ out.failed # ""
             => /\ out.images = 0
                /\ StartsWith(out.status, CrossMark \o " Error generating image:")
        /\ out.failed = ""
             => /\ out.images = out.num_images
                /\ Len(out.paths) = out.num_images
                /\ StartsWith(out.status, CheckMark \o " Generated ")

C16_Witness ==
    /\ out.op = "app"
    /\ out.failed = "save"
    /\ out.exc = ""
    /\ out.images = 0
    /\ out.status = CrossMark \o " Error generating image: save failed"

\* C17: generate_image of the generator calls load_model exactly when the
\* pipeline is None; as long as no load has raised, load_model has run exactly
\* once after any number of calls, and the pipeline that is invoked is the
\* loaded one, never None.
C17_LazyLoadOnce ==
    out.handed =>
        /\ out.load_called <=> (out.pipeline_before = "None")
        /\ ~loadRaised => loads = 1
        /\ PipelineInvoked => out.invoked # "None"
        /\ (PipelineInvoked /\ ~loadRaised) => out.invoked = "ready"

C17_Witness ==
    /\ out.handed
    /\ ~loadRaised
    /\ ~out.load_called
    /\ loads = 1
    /\ out.invoked = "ready"

\* C18: whenever load_model raises, the pipeline of the generator is None
\* afterwards, and no generate_image call invokes a pipeline that was created
\* but not moved to the device.
C18_FailedLoadLeavesNone ==
    /\ (out.handed /\ out.load_exc # "") => generator.pipeline = "None"
    /\ out.invoked # "unmoved"

\* C19: the part of each file name that save_images makes from the prompt
\* holds only letters, digits, spaces, '-' and '_', and at most 50
\* characters; save_images returns one path per image, in order, with the
\* index suffixes 1..n, so the paths of one call differ from each other.
C19_SafeFilenames ==
    out.handed =>
        /\ \A i \in 1 .. Len(out.safe_prompt) :
               SubSeq(out.safe_prompt, i, i) \in AlnumChars \cup {" ", "-", "_"}
        /\ Len(out.safe_prompt) <= 50
        /\ out.failed = "" => Len(out.paths) = out.num_images
        /\ \E timestamp \in Timestamps :
               \A i \in 1 .. Len(out.paths) :
                   out.paths[i] = "outputs/generated/" \o out.safe_prompt \o "_"
                                     \o timestamp \o "_" \o ToString(i) \o ".png"
        /\ \A i, j \in 1 .. Len(out.paths) : i # j => out.paths[i] # out.paths[j]

C19_Witness ==
    /\ out.handed
    /\ out.failed = ""
    /\ Len(out.paths) >= 2
    /\ HasChar(out.handed_prompt, "/")
    /\ HasChar(out.handed_prompt, ".")
    /\ Len(out.safe_prompt) = 50

(***************************************************************************)
(* Claim about the names add_custom_data gives (SpecData).                  *)
(***************************************************************************)

\* The number of data rows of a CSV file: its lines but the header.
DataRowCount(file) == IF Len(file.lines) = 0 THEN 0 ELSE Len(file.lines) - 1

\* The image_path values of the data rows of a CSV file are pairwise distinct.
ImagePathsDistinct(file) ==
    \A i, j \in 2 .. Len(file.lines) :
        i # j => file.lines[i][2] # file.lines[j][2]

\* What a step that adds text_prompt to split leaves: the image is named
\* after the count of data rows before the step plus one, the row
\* (text_prompt, name, 'custom') is the last line, there is exactly one data
\* row more, the rows that were there are kept, the other CSV is untouched.
AddedOneRow(split, text_prompt) ==
    LET before == csv[split]
        after == csv'[split]
        name == "custom_" \o ToString(DataRowCount(before) + 1) \o ".jpg"
    IN  /\ lastAdd'.image_name = name
        /\ DataRowCount(after) = DataRowCount(before) + 1
        /\ after.lines[Len(after.lines)] = <<text_prompt, name, "custom">>
        /\ \A i \in 2 .. Len(before.lines) : after.lines[i] = before.lines[i]
        /\ \A other \in Splits \ {split} : csv'[other] = csv[other]

\* C21: add_custom_data names the stored image custom_<n>.jpg, n being the
\* number of data rows already in the split's CSV plus one, and appends
\* exactly one row (text_prompt, that name, 'custom'); so the row count grows
\* by one per call and the image_path values of one CSV are always pairwise
\* distinct.
C21_CustomNamesDistinct ==
    /\ [](\A sp \in Splits : ImagePathsDistinct(csv[sp]))
    /\ [][/\ \A sp \in Splits : \A text \in TextsOf(sp) :
                AddCustomData(text, sp, TRUE) => AddedOneRow(sp, text)
          /\ \A text \in TrainTexts :
                CreateTrainingData(text, TRUE, "none") => AddedOneRow("train", text)]_vars

C21_Witness ==
    /\ csv["validation"].lines =
         <<HeaderRow, <<"a held-out cat", "custom_1.jpg", "custom">>,
           <<"a held-out cat", "custom_2.jpg", "custom">>>>
    /\ lastAdd.op = "add_custom_data"
    /\ lastAdd.split = "validation"
    /\ lastAdd.status = "added"
    /\ lastAdd.image_name = "custom_2.jpg"

====
